---- MODULE Spec2Model ----
(***************************************************************************)
(* Model of the backup application: the chunked upload of the storage      *)
(* interfaces (azure blob storage and local filesystem), the listing and   *)
(* default retention of a storage interface, run_backups and the           *)
(* run_backup loop, backup() of the directory backup interfaces (local and *)
(* ssh), and load_config.                                                  *)
(***************************************************************************)
EXTENDS Integers, Sequences, FiniteSets, TLC

\* ------------------------------------------------------------------ bounds
\* file sizes 0..MaxFileSize, chunk sizes 1..MaxChunkSize, at most MaxChunks
\* chunks per upload, 1..MaxWorkers pool threads
MaxFileSize == 11
MaxChunkSize == 5
MaxChunks == 3
MaxWorkers == 2
\* chunks of the file in the uploads checked under fair scheduling
MaxFairChunks == 2
\* retention counts 1..MaxCount
MaxCount == 3
\* the storage holds at most MaxEntries entries
MaxEntries == 4
\* at most MaxListCalls list calls in a row are followed
MaxListCalls == 2
\* at most MaxInterfaces backup interfaces in the configuration
MaxInterfaces == 3
\* directories of a backup interface
MaxDirs == 2
\* largest config.count of a directory's retention in a backup
MaxKeep == 1
\* vaults of a configuration
MaxVaults == 2
\* sources of a job that runs the backup of every source
MaxSources == 2
\* keys of the dictionary handed to mask_sensitive_data
MaxMaskKeys == 2
\* items of a list inside that dictionary
MaxListLen == 1

\* ------------------------------------------------------- program constants
\* width of str(offset).zfill(16)
CHUNK_ID_WIDTH == 16

VARIABLES
    \* ---- upload(file, file_size, dst) of a storage interface
    sink,            \* "azure" | "local" | "none": the storage interface uploading
    file,            \* content of the source handle `file`
    file_size,       \* argument file_size
    chunk_size,      \* settings.BACKUP_UPLOAD_CHUNK_SIZE
    chunk_workers,   \* settings.BACKUP_UPLOAD_CONCURRENCY
    upc,             \* position of the thread that called upload
    chunk_offset,    \* loop variable of range(0, file_size, chunk_size)
    blob_chunk_ids,  \* azure: list handed to commit_block_list
    futures,         \* work items submitted to the executor, in submit order
    file_lock,       \* module level threading.Lock: 0 free, else holder (index in futures)
    file_pos,        \* seek position of the source handle
    dst_pos,         \* local: seek position of file_dst
    dst_file,        \* local: content of the destination file
    dst_open,        \* local: file_dst is open
    staged,          \* azure: uncommitted blocks, block id -> data
    blob,            \* azure: committed blob content, <<>> wrapped: <<content>> or <<>> when absent
    commit_calls,    \* azure: number of commit_block_list calls
    stage_calls,     \* azure: number of stage_block calls
    progress,        \* bytes reported to the progress bar
    completed,       \* history: work items in the order they finished
    \* ---- list(path), retention(path, config) of a storage interface
    stored,          \* names of the entries the storage holds
    list_calls,      \* list calls since the stored entries last changed
    last_path,       \* argument of the latest list call
    last_list,       \* its result
    prev_list,       \* result of the list call before it, same path and entries
    ret_status,      \* "returned" | "raised" when the latest call was a retention, else "none"
    ret_listing,     \* the listing it enumerated
    ret_count,       \* its config.count
    ret_calls,       \* the arguments of its delete calls, in call order
    \* ---- run_backup(config)
    graceful,        \* settings.BACKUP_GRACEFUL_ERRORS
    interfaces,      \* config.interfaces
    storage_ok,      \* config.storage.interface resolves and constructs
    rpc,             \* position in run_backup
    configs,         \* list `configs`: indexes into interfaces
    instances,       \* list `instances`: indexes into interfaces
    cur,             \* position of `for instance in instances`
    src_state,       \* per interface: state of the source
    reported,        \* interfaces logged by logger.error, in order
    error,           \* the exception that left run_backup, "none" if none
    calls,           \* history: <<operation, interface>> in call order
    job_enabled,     \* config.enabled
    events,          \* history: get_class, construct and connect, with the interface
    \* ---- backup() of a directories backup interface
    src_class,       \* class of the backup interface
    directories,     \* config.directories
    bpc,             \* position in backup()
    dcur,            \* position of `for directory in self.config.directories`
    tmp_files,       \* directories whose temporary archive exists (local file or /tmp on the host)
    sftp_open,       \* ssh: sftp sessions opened and not closed
    dst_exists,      \* destination paths that exist at the storage
    exists_ret,      \* per directory: "true" | "false" as self.storage.exists returned, "none" before
    upload_ret,      \* per directory: how self.storage.upload ended, "none" before
    remove_failed,   \* directories whose temporary archive the removal left in place
    berror,          \* the statement whose exception left backup(), "none" if none
    steps,           \* history: <<statement, directory>> in execution order
    \* ---- load_config(path)
    vaults,          \* `vaults` of the yaml document
    placeholders,    \* variables the document references as ${NAME}
    env,             \* os.environ: variable -> <<origin, vault>>, origin "os", "vault" or "unset"
    cstep,           \* position in load_config: index into LoadOrder
    vcur,            \* position of `for vault in config.get("vaults", [])`
    substituted,     \* what sub_yaml put in place of each placeholder
    cerror,          \* the exception that left load_config, "none" if none
    \* ---- mask_sensitive_data(data)
    mask_data,       \* the argument `data`
    mask_ret,        \* the value returned
    mpc              \* "idle" | "called" | "returned"

\* what upload is called with and the settings it reads
uploadArgs == <<sink, file, file_size, chunk_size, chunk_workers>>

uploadVars == <<uploadArgs, upc, chunk_offset, blob_chunk_ids, futures, file_lock,
                file_pos, dst_pos, dst_file, dst_open, staged, blob, commit_calls,
                stage_calls, progress, completed>>

storageVars == <<stored, list_calls, last_path, last_list, prev_list, ret_status,
                 ret_listing, ret_count, ret_calls>>

runVars == <<graceful, interfaces, storage_ok, rpc, configs, instances, cur,
             src_state, reported, error, calls, job_enabled, events>>

backupVars == <<src_class, directories, bpc, dcur, tmp_files, sftp_open, dst_exists,
                exists_ret, upload_ret, remove_failed, berror, steps>>

configVars == <<vaults, placeholders, env, cstep, vcur, substituted, cerror>>

maskVars == <<mask_data, mask_ret, mpc>>

vars == <<uploadVars, storageVars, runVars, backupVars, configVars, maskVars>>

\* ------------------------------------------------------------- characters
DigitChars == <<"0", "1", "2", "3", "4", "5", "6", "7", "8", "9">>

\* code points of the characters the model uses
Ord == ("." :> 46) @@ ("/" :> 47)
    @@ ("0" :> 48) @@ ("1" :> 49) @@ ("2" :> 50) @@ ("3" :> 51) @@ ("4" :> 52)
    @@ ("5" :> 53) @@ ("6" :> 54) @@ ("7" :> 55) @@ ("8" :> 56) @@ ("9" :> 57)
    @@ ("A" :> 65) @@ ("B" :> 66) @@ ("T" :> 84) @@ ("Z" :> 90)
    @@ ("_" :> 95)
    @@ ("a" :> 97) @@ ("b" :> 98) @@ ("g" :> 103) @@ ("r" :> 114)
    @@ ("t" :> 116) @@ ("z" :> 122)

\* s < t for python str: code point order, a proper prefix is smaller
RECURSIVE StrLess(_, _)
StrLess(s, t) ==
    IF t = <<>> THEN FALSE
    ELSE IF s = <<>> THEN TRUE
    ELSE IF Ord[Head(s)] # Ord[Head(t)] THEN Ord[Head(s)] < Ord[Head(t)]
    ELSE StrLess(Tail(s), Tail(t))

\* str(n) for n >= 0
RECURSIVE Str(_)
Str(n) == IF n < 10 THEN <<DigitChars[n + 1]>>
          ELSE Str(n \div 10) \o <<DigitChars[(n % 10) + 1]>>

\* no padding
Zfill_None(s, width) == s

\* s.zfill(width): pad on the left with "0", never truncate
RECURSIVE Zfill(_, _)
Zfill(s, width) == IF Len(s) >= width THEN s ELSE Zfill(<<"0">> \o s, width)

\* blob_chunk_id = str(blob_chunk_offset).zfill(16)
ChunkId(offset) == Zfill(Str(offset), CHUNK_ID_WIDTH)

Min(a, b) == IF a < b THEN a ELSE b

\* ------------------------------------------------------------ file handles
\* the bytes of the source: every byte differs from its neighbours and from the
\* zero byte a sparse write leaves in a hole
SourceBytes(n) == [i \in 1..n |-> i]

\* a read that ignores the seek position and starts at the head of the file
ReadAt_IgnoresSeek(f, pos, length) == SubSeq(f, 1, Min(length, Len(f)))

\* file.read(length) at position pos of content f
ReadAt(f, pos, length) ==
    IF pos >= Len(f) THEN <<>> ELSE SubSeq(f, pos + 1, Min(pos + length, Len(f)))

\* file_dst.write(data) at position pos of content f: a hole is zero filled
WriteAt(f, pos, data) ==
    LET n == IF pos + Len(data) > Len(f) THEN pos + Len(data) ELSE Len(f)
    IN  IF data = <<>> THEN f
        ELSE [i \in 1..n |->
                 IF i > pos /\ i <= pos + Len(data) THEN data[i - pos]
                 ELSE IF i <= Len(f) THEN f[i] ELSE 0]

\* ------------------------------------------------------------------ upload
Sinks == {"azure", "local"}

Running(st) == st \notin {"queued", "done", "failed"}
Finished(st) == st \in {"done", "failed"}

RunningCount == Cardinality({t \in 1..Len(futures) : Running(futures[t].st)})

\* ThreadPoolExecutor: the work queue is FIFO, so the next item to start is the
\* first one still queued
FirstQueued(t) ==
    /\ futures[t].st = "queued"
    /\ \A u \in 1..(t - 1) : futures[u].st # "queued"

\* no upload is in progress
UploadIdle ==
    /\ upc = "start"
    /\ chunk_offset = 0
    /\ blob_chunk_ids = <<>>
    /\ futures = <<>>
    /\ file_lock = 0
    /\ file_pos = 0
    /\ dst_pos = 0
    /\ dst_file = <<>>
    /\ dst_open = FALSE
    /\ staged = <<>>
    /\ blob = <<>>
    /\ commit_calls = 0
    /\ stage_calls = 0
    /\ progress = 0
    /\ completed = <<>>

\* azure: blob_client = self.client.get_blob_client(dst), no request is sent;
\* local: open(dst, "wb") truncates the destination or raises
Begin ==
    /\ upc = "start"
    /\ \/ /\ sink = "azure"
          /\ upc' = "loop"
          /\ UNCHANGED <<dst_open, dst_file>>
       \/ /\ sink = "local"
          /\ \E ok \in BOOLEAN :
                IF ok THEN upc' = "loop" /\ dst_open' = TRUE /\ dst_file' = <<>>
                ELSE upc' = "raised" /\ UNCHANGED <<dst_open, dst_file>>
    /\ UNCHANGED <<uploadArgs, chunk_offset, blob_chunk_ids, futures, file_lock,
                   file_pos, dst_pos, staged, blob, commit_calls, stage_calls,
                   progress, completed>>
    /\ UNCHANGED <<storageVars, runVars, backupVars, configVars, maskVars>>

\* a loop that runs once even for an empty range
InRange_AtLeastOnce(offset, stop) == offset < stop \/ (offset = 0 /\ stop = 0)

\* range(0, file_size, chunk_size) yields offset: offset < stop
InRange(offset, stop) == offset < stop

\* every chunk gets the full chunk size, the last one too
ChunkLength_Full(offset) == chunk_size

\* chunk_length = min(chunk_size, file_size - chunk_offset)
ChunkLength(offset) == Min(chunk_size, file_size - offset)

\* the new id is put in front of the list
IdsAfterSubmit_Prepend(ids, offset) == <<ChunkId(offset)>> \o ids

\* azure: blob_chunk_ids.append(blob_chunk_id), by the submitting thread
IdsAfterSubmit(ids, offset) == Append(ids, ChunkId(offset))

\* the arguments executor.submit hands to upload_chunk
NewFuture(offset) ==
    [offset |-> offset, length |-> ChunkLength(offset), chunk_id |-> ChunkId(offset),
     st |-> "queued", file_data |-> <<>>]

\* one iteration of `for chunk_offset in range(0, file_size, chunk_size)`
Submit ==
    /\ upc = "loop"
    /\ InRange(chunk_offset, file_size)
    /\ futures' = Append(futures, NewFuture(chunk_offset))
    /\ blob_chunk_ids' = IF sink = "azure"
                         THEN IdsAfterSubmit(blob_chunk_ids, chunk_offset)
                         ELSE blob_chunk_ids
    /\ chunk_offset' = chunk_offset + chunk_size
    /\ UNCHANGED <<uploadArgs, upc, file_lock, file_pos, dst_pos, dst_file, dst_open,
                   staged, blob, commit_calls, stage_calls, progress, completed>>
    /\ UNCHANGED <<storageVars, runVars, backupVars, configVars, maskVars>>

\* the range is exhausted: the with block of the executor is left and
\* shutdown(wait=True) starts waiting for the work items
LoopEnd ==
    /\ upc = "loop"
    /\ ~InRange(chunk_offset, file_size)
    /\ upc' = "join"
    /\ UNCHANGED <<uploadArgs, chunk_offset, blob_chunk_ids, futures, file_lock,
                   file_pos, dst_pos, dst_file, dst_open, staged, blob, commit_calls,
                   stage_calls, progress, completed>>
    /\ UNCHANGED <<storageVars, runVars, backupVars, configVars, maskVars>>

\* shutdown(wait=True) returns once every work item ran; the exception of a
\* work item stays in its future, which nobody reads.  local: leaving
\* `with open(...)` closes file_dst and upload returns
\* the executor is left without waiting for the workers
PoolDrained_NoWait == TRUE

\* the executor waits for the running workers and leaves the queued items
PoolDrained_StartedOnly == \A t \in 1..Len(futures) : ~Running(futures[t].st)

\* leaving `with ThreadPoolExecutor(...)` waits until every work item finished
PoolDrained == \A t \in 1..Len(futures) : Finished(futures[t].st)

Join ==
    /\ upc = "join"
    /\ PoolDrained
    /\ IF sink = "azure"
       THEN upc' = "commit" /\ UNCHANGED dst_open
       ELSE upc' = "returned" /\ dst_open' = FALSE
    /\ UNCHANGED <<uploadArgs, chunk_offset, blob_chunk_ids, futures, file_lock,
                   file_pos, dst_pos, dst_file, staged, blob, commit_calls,
                   stage_calls, progress, completed>>
    /\ UNCHANGED <<storageVars, runVars, backupVars, configVars, maskVars>>

IsStaged(id) == id \in DOMAIN staged

\* the blob the service builds from the listed blocks, in list order
RECURSIVE ConcatBlocks(_)
ConcatBlocks(ids) ==
    IF ids = <<>> THEN <<>>
    ELSE staged[Head(ids)] \o ConcatBlocks(Tail(ids))

\* blob_client.commit_block_list(blob_chunk_ids): the service rejects a list
\* that names a block that was never staged, and the request itself can fail
Commit ==
    /\ upc = "commit"
    /\ commit_calls' = commit_calls + 1
    /\ \/ /\ \A k \in 1..Len(blob_chunk_ids) : IsStaged(blob_chunk_ids[k])
          /\ blob' = <<ConcatBlocks(blob_chunk_ids)>>
          /\ staged' = <<>>
          /\ upc' = "returned"
       \/ /\ upc' = "raised"
          /\ UNCHANGED <<blob, staged>>
    /\ UNCHANGED <<uploadArgs, chunk_offset, blob_chunk_ids, futures, file_lock,
                   file_pos, dst_pos, dst_file, dst_open, stage_calls, progress,
                   completed>>
    /\ UNCHANGED <<storageVars, runVars, backupVars, configVars, maskVars>>

\* ------------------------------------------------- upload_chunk, one worker
\* a worker thread of the pool takes the first queued work item
Start(t) ==
    /\ FirstQueued(t)
    /\ RunningCount < chunk_workers
    /\ futures' = [futures EXCEPT ![t].st = "wait_src"]
    /\ UNCHANGED <<uploadArgs, upc, chunk_offset, blob_chunk_ids, file_lock, file_pos,
                   dst_pos, dst_file, dst_open, staged, blob, commit_calls,
                   stage_calls, progress, completed>>
    /\ UNCHANGED <<storageVars, runVars, backupVars, configVars, maskVars>>

\* no lock is taken around the seek and the read or write
LockFree_Always == TRUE

\* `with file_lock:` is entered only while no thread holds the lock
LockFree == file_lock = 0

\* `with file_lock:` before the read of the source
AcquireSrc(t) ==
    /\ futures[t].st = "wait_src"
    /\ LockFree
    /\ file_lock' = t
    /\ futures' = [futures EXCEPT ![t].st = "seek"]
    /\ UNCHANGED <<uploadArgs, upc, chunk_offset, blob_chunk_ids, file_pos, dst_pos,
                   dst_file, dst_open, staged, blob, commit_calls, stage_calls,
                   progress, completed>>
    /\ UNCHANGED <<storageVars, runVars, backupVars, configVars, maskVars>>

\* the lock stays with the worker that raised
LockAfterRaise_Held(t) == t

\* an exception inside `with file_lock:` leaves the block, which releases the
\* lock: the holder after worker t raised
LockAfterRaise(t) == 0

\* file.seek(offset); an exception leaves the with block, which releases the lock
Seek(t) ==
    /\ futures[t].st = "seek"
    /\ \E ok \in BOOLEAN :
          IF ok
          THEN /\ file_pos' = futures[t].offset
               /\ futures' = [futures EXCEPT ![t].st = "read"]
               /\ UNCHANGED <<file_lock, completed>>
          ELSE /\ futures' = [futures EXCEPT ![t].st = "failed"]
               /\ completed' = Append(completed, t)
               /\ file_lock' = LockAfterRaise(t)
               /\ UNCHANGED file_pos
    /\ UNCHANGED <<uploadArgs, upc, chunk_offset, blob_chunk_ids, dst_pos, dst_file,
                   dst_open, staged, blob, commit_calls, stage_calls, progress>>
    /\ UNCHANGED <<storageVars, runVars, backupVars, configVars, maskVars>>

\* file_data = file.read(length), then the with block releases the lock
Read(t) ==
    /\ futures[t].st = "read"
    /\ file_lock' = 0
    /\ \E ok \in BOOLEAN :
          IF ok
          THEN LET data == ReadAt(file, file_pos, futures[t].length)
               IN  /\ file_pos' = file_pos + Len(data)
                   /\ futures' = [futures EXCEPT
                                    ![t].file_data = data,
                                    ![t].st = IF sink = "azure" THEN "stage" ELSE "wait_dst"]
                   /\ UNCHANGED completed
          ELSE /\ futures' = [futures EXCEPT ![t].st = "failed"]
               /\ completed' = Append(completed, t)
               /\ UNCHANGED file_pos
    /\ UNCHANGED <<uploadArgs, upc, chunk_offset, blob_chunk_ids, dst_pos, dst_file,
                   dst_open, staged, blob, commit_calls, stage_calls, progress>>
    /\ UNCHANGED <<storageVars, runVars, backupVars, configVars, maskVars>>

\* azure: blob_client.stage_block(block_id=chunk_id, data=file_data), then
\* progress.update(len(file_data))
Stage(t) ==
    /\ futures[t].st = "stage"
    /\ stage_calls' = stage_calls + 1
    /\ completed' = Append(completed, t)
    /\ \E ok \in BOOLEAN :
          IF ok
          THEN /\ staged' = (futures[t].chunk_id :> futures[t].file_data) @@ staged
               /\ progress' = progress + Len(futures[t].file_data)
               /\ futures' = [futures EXCEPT ![t].st = "done"]
          ELSE /\ futures' = [futures EXCEPT ![t].st = "failed"]
               /\ UNCHANGED <<staged, progress>>
    /\ UNCHANGED <<uploadArgs, upc, chunk_offset, blob_chunk_ids, file_lock, file_pos,
                   dst_pos, dst_file, dst_open, blob, commit_calls>>
    /\ UNCHANGED <<storageVars, runVars, backupVars, configVars, maskVars>>

\* local: the second `with file_lock:`, before the write to file_dst
AcquireDst(t) ==
    /\ futures[t].st = "wait_dst"
    /\ LockFree
    /\ file_lock' = t
    /\ futures' = [futures EXCEPT ![t].st = "dseek"]
    /\ UNCHANGED <<uploadArgs, upc, chunk_offset, blob_chunk_ids, file_pos, dst_pos,
                   dst_file, dst_open, staged, blob, commit_calls, stage_calls,
                   progress, completed>>
    /\ UNCHANGED <<storageVars, runVars, backupVars, configVars, maskVars>>

\* local: file_dst.seek(offset)
SeekDst(t) ==
    /\ futures[t].st = "dseek"
    /\ \E ok \in BOOLEAN :
          IF ok
          THEN /\ dst_pos' = futures[t].offset
               /\ futures' = [futures EXCEPT ![t].st = "write"]
               /\ UNCHANGED <<file_lock, completed>>
          ELSE /\ futures' = [futures EXCEPT ![t].st = "failed"]
               /\ completed' = Append(completed, t)
               /\ file_lock' = LockAfterRaise(t)
               /\ UNCHANGED dst_pos
    /\ UNCHANGED <<uploadArgs, upc, chunk_offset, blob_chunk_ids, file_pos, dst_file,
                   dst_open, staged, blob, commit_calls, stage_calls, progress>>
    /\ UNCHANGED <<storageVars, runVars, backupVars, configVars, maskVars>>

\* local: file_dst.write(file_data), the with block releases the lock, then
\* progress.update(len(file_data))
Write(t) ==
    /\ futures[t].st = "write"
    /\ file_lock' = 0
    /\ completed' = Append(completed, t)
    /\ \E ok \in BOOLEAN :
          IF ok
          THEN /\ dst_file' = WriteAt(dst_file, dst_pos, futures[t].file_data)
               /\ dst_pos' = dst_pos + Len(futures[t].file_data)
               /\ progress' = progress + Len(futures[t].file_data)
               /\ futures' = [futures EXCEPT ![t].st = "done"]
          ELSE /\ futures' = [futures EXCEPT ![t].st = "failed"]
               /\ UNCHANGED <<dst_file, dst_pos, progress>>
    /\ UNCHANGED <<uploadArgs, upc, chunk_offset, blob_chunk_ids, file_pos, dst_open,
                   staged, blob, commit_calls, stage_calls>>
    /\ UNCHANGED <<storageVars, runVars, backupVars, configVars, maskVars>>

UploadChunk(t) ==
    \/ Start(t)
    \/ AcquireSrc(t)
    \/ Seek(t)
    \/ Read(t)
    \/ Stage(t)
    \/ AcquireDst(t)
    \/ SeekDst(t)
    \/ Write(t)

\* --------------------------------------------------------- stored entries
\* the destination paths and the names the storage can hold:
\*   a/b_1.tar  a/b_1.tgz  a/B_1.tar  a/b_2.tar  a/b_3.tar.gz
\*   a2/b_8.tar  a2/b_9.tar
\* the first three differ only in extension or letter case
PathA == <<"a">>
PathA2 == <<"a", "2">>
Paths == {PathA, PathA2}

Entries ==
    { <<"a", "/", "b", "_", "1", ".", "t", "a", "r">>,
      <<"a", "/", "b", "_", "1", ".", "t", "g", "z">>,
      <<"a", "/", "B", "_", "1", ".", "t", "a", "r">>,
      <<"a", "/", "b", "_", "2", ".", "t", "a", "r">>,
      <<"a", "/", "b", "_", "3", ".", "t", "a", "r", ".", "g", "z">>,
      <<"a", "2", "/", "b", "_", "8", ".", "t", "a", "r">>,
      <<"a", "2", "/", "b", "_", "9", ".", "t", "a", "r">> }

Max(S) == CHOOSE x \in S : \A y \in S : y <= x

\* s.rfind(c), 1-based, 0 when c does not occur
LastIndex(s, c) == Max({0} \cup {i \in 1..Len(s) : s[i] = c})

\* os.path.splitext(p)[0]: cut at the last dot of the last path component,
\* unless that component has nothing but dots before it
SplitextRoot(p) ==
    LET sep == LastIndex(p, "/")
        dot == LastIndex(p, ".")
    IN  IF dot > sep /\ \E i \in (sep + 1)..(dot - 1) : p[i] # "."
        THEN SubSeq(p, 1, dot - 1)
        ELSE p

LowerChar(c) ==
    CASE c = "A" -> "a"
      [] c = "B" -> "b"
      [] c = "T" -> "t"
      [] c = "Z" -> "z"
      [] OTHER -> c

\* str.lower()
Lower(s) == [i \in 1..Len(s) |-> LowerChar(s[i])]

\* key=lambda f: os.path.splitext(f)[0].lower()
SortKey(f) == Lower(SplitextRoot(f))

\* SortKey(a) < SortKey(b), tabulated over the names the storage can hold
KeyLess == [a \in Entries, b \in Entries |-> StrLess(SortKey(a), SortKey(b))]

\* insert x into a list sorted descending by key, behind the entries whose key
\* is not smaller: entries with equal keys keep the order they arrived in
InsertDesc(sorted, x) ==
    LET smaller == {i \in 1..Len(sorted) : KeyLess[sorted[i], x]}
        at == IF smaller = {} THEN Len(sorted) + 1
              ELSE CHOOSE i \in smaller : \A j \in smaller : i <= j
    IN  SubSeq(sorted, 1, at - 1) \o <<x>> \o SubSeq(sorted, at, Len(sorted))

\* sorted(names, key=SortKey, reverse=True): python's sort is stable, also reversed
RECURSIVE SortedDesc(_, _)
SortedDesc(done, names) ==
    IF names = <<>> THEN done
    ELSE SortedDesc(InsertDesc(done, Head(names)), Tail(names))

StartsWith(s, prefix) ==
    Len(s) >= Len(prefix) /\ SubSeq(s, 1, Len(prefix)) = prefix

\* os.path.dirname(name)
Dirname(name) == SubSeq(name, 1, LastIndex(name, "/") - 1)

\* the names a list call collects before it sorts them.
\* local: [os.path.join(path, i) for i in os.listdir(path)];
\* azure: blob.name of list_blobs(name_starts_with=path), without path itself
ListedNames(path) ==
    IF sink = "local"
    THEN {n \in stored : Dirname(n) = path}
    ELSE {n \in stored : StartsWith(n, path) /\ n # path}

\* every order in which the storage can enumerate the names of S
RECURSIVE Orders(_)
Orders(S) ==
    IF S = {} THEN {<<>>}
    ELSE UNION {{<<x>> \o o : o \in Orders(S \ {x})} : x \in S}

\* the value of self.list(path) when the storage enumerates in order enum
ListResult(enum) == SortedDesc(<<>>, enum)

\* a < b as names, tabulated over the names the storage can hold
NameLess == [a \in Entries, b \in Entries |-> StrLess(a, b)]

\* the names of S in ascending order
Ascending(S) ==
    CHOOSE o \in Orders(S) : \A i, j \in 1..Len(o) : i < j => NameLess[o[i], o[j]]

\* the orders in which the storage can hand the names to a list call:
\* os.listdir returns them in arbitrary order, list_blobs in the alphabetical
\* order in which the blob service lists blobs
Enumerations(path) ==
    IF sink = "local"
    THEN Orders(ListedNames(path))
    ELSE {Ascending(ListedNames(path))}

\* the values self.list(path) can have, over the orders of enumeration
ListResults(path) == {ListResult(enum) : enum \in Enumerations(path)}

Range(s) == {s[i] : i \in 1..Len(s)}

\* marks "no earlier list call to compare with"
NoList == <<"-">>

\* no list or retention call happened
StorageIdle ==
    /\ list_calls = 0
    /\ last_path = <<>>
    /\ last_list = <<>>
    /\ prev_list = NoList
    /\ ret_status = "none"
    /\ ret_listing = <<>>
    /\ ret_count = 0
    /\ ret_calls = <<>>

\* ------------------------------------------------------------- list(path)
List(path) ==
    /\ list_calls < MaxListCalls
    /\ \E listing \in ListResults(path) : last_list' = listing
    /\ prev_list' = IF list_calls > 0 /\ last_path = path THEN last_list ELSE NoList
    /\ last_path' = path
    /\ list_calls' = list_calls + 1
    /\ ret_status' = "none"
    /\ ret_listing' = <<>>
    /\ ret_count' = 0
    /\ ret_calls' = <<>>
    /\ UNCHANGED stored
    /\ UNCHANGED <<uploadVars, runVars, backupVars, configVars, maskVars>>

\* ------------------------------------------------ retention(path, config)
\* off by one: keeps count + 1 entries
RetentionDeletes_After(i, count) == i > count

\* `if i >= config.count:` with i the 0-based position in the listing
RetentionDeletes(i, count) == i >= count

\* the items the loop calls self.delete with, in order
DeleteArgs(listing, count) ==
    SelectSeq([k \in 1..Len(listing) |-> <<k - 1, listing[k]>>],
              LAMBDA e : RetentionDeletes(e[1], count))

\* for i, item in enumerate(self.list(path=path)): if i >= config.count:
\* self.delete(item).  Every delete succeeds (failed = 0), or delete call
\* number `failed` raises and ends the loop
RetentionCall(path, count) ==
    \E listing \in ListResults(path) :
        LET args == DeleteArgs(listing, count)
        IN  \E failed \in 0..Len(args) :
                LET made == IF failed = 0 THEN args ELSE SubSeq(args, 1, failed)
                    gone == IF failed = 0 THEN args ELSE SubSeq(args, 1, failed - 1)
                IN  /\ ret_listing' = listing
                    /\ ret_count' = count
                    /\ ret_calls' = [k \in 1..Len(made) |-> made[k][2]]
                    /\ ret_status' = IF failed = 0 THEN "returned" ELSE "raised"
                    /\ stored' = stored \ {gone[k][2] : k \in 1..Len(gone)}
                    /\ list_calls' = 0
                    /\ prev_list' = NoList
                    /\ last_path' = path
                    /\ last_list' = <<>>

\* a retention call on the storage interface
Retention(path, count) ==
    /\ RetentionCall(path, count)
    /\ UNCHANGED <<uploadVars, runVars, backupVars, configVars, maskVars>>

\* ------------------------------------------------------ run_backup(config)
\* shapes of an `interface` identifier: a class that exists, a module that
\* cannot be imported, a module without the class, a name with no separator
Idents == {"known", "unknown_module", "unknown_class", "no_separator"}

\* get_class(cls): cls.rsplit(separator, 1) is unpacked into two names, which
\* raises ValueError when there is no separator; a failed import and a missing
\* attribute raise ImportError
GetClass(ident) ==
    CASE ident = "no_separator" -> "ValueError"
      [] ident = "unknown_module" -> "ImportError"
      [] ident = "unknown_class" -> "ImportError"
      [] OTHER -> "class"

InterfaceConfigs == [enabled : BOOLEAN, interface : Idents]

\* the backup interfaces an identifier can resolve to
SourceClasses == {"LocalDirectoryBackupInterface", "SSHDirectoryBackupInterface"}

\* the class derives from ClientInterfaceMixin, whose __init__ calls
\* get_client(); for the ssh interface get_client() connects to the host
ConnectsInInit(cls) == cls = "SSHDirectoryBackupInterface"

\* the identifier get_class was called with: 0 is config.storage
IdentOf(i) == IF i = 0 THEN storage_ok ELSE interfaces[i].interface

\* run_backup was not called
RunIdle ==
    /\ graceful = TRUE
    /\ job_enabled = TRUE
    /\ interfaces = <<>>
    /\ storage_ok = "known"
    /\ rpc = "idle"
    /\ configs = <<>>
    /\ instances = <<>>
    /\ cur = 0
    /\ src_state = <<>>
    /\ reported = <<>>
    /\ error = "none"
    /\ calls = <<>>
    /\ events = <<>>

\* run_backups(): `if not config.enabled` logs and returns, else
\* run_backup(config=config) is called
RunBackups ==
    /\ rpc = "app"
    /\ rpc' = IF job_enabled THEN "storage" ELSE "skipped"
    /\ UNCHANGED <<graceful, job_enabled, interfaces, storage_ok, configs, instances,
                   cur, src_state, reported, error, calls, events>>
    /\ UNCHANGED <<uploadVars, storageVars, backupVars, configVars, maskVars>>

\* storage_cls = get_class(cls=config.storage.interface);
\* storage_instance = storage_cls(config=config.storage), which raises when the
\* configuration does not fit the class
ResolveStorage ==
    /\ rpc = "storage"
    /\ IF GetClass(storage_ok) # "class"
       THEN /\ rpc' = "raised"
            /\ error' = GetClass(storage_ok)
            /\ events' = Append(events, <<"get_class", 0>>)
       ELSE /\ events' = events \o <<<<"get_class", 0>>, <<"construct", 0>>>>
            /\ \E ok \in BOOLEAN :
                  IF ok THEN rpc' = "filter" /\ UNCHANGED error
                  ELSE rpc' = "raised" /\ error' = "ValidationError"
    /\ UNCHANGED <<graceful, job_enabled, interfaces, storage_ok, configs, instances,
                   cur, src_state, reported, calls>>
    /\ UNCHANGED <<uploadVars, storageVars, backupVars, configVars, maskVars>>

\* every interface passes the filter
Selected_All(i) == TRUE

\* `if interface.enabled`
Selected(i) == interfaces[i].enabled

\* for interface in config.interfaces: if interface.enabled: configs.append(interface)
Filter ==
    /\ rpc = "filter"
    /\ configs' = SelectSeq([i \in 1..Len(interfaces) |-> i], Selected)
    /\ rpc' = "instantiate"
    /\ cur' = 1
    /\ UNCHANGED <<graceful, job_enabled, interfaces, storage_ok, instances, src_state,
                   reported, error, calls, events>>
    /\ UNCHANGED <<uploadVars, storageVars, backupVars, configVars, maskVars>>

\* one iteration of `for config in configs`: cls = get_class(cls=config.interface);
\* instances.append(cls(config=config, storage=storage_instance)). The
\* constructor validates the configuration against config_cls and, for a
\* class with a client, connects
Instantiate ==
    /\ rpc = "instantiate"
    /\ cur <= Len(configs)
    /\ LET i == configs[cur]
           found == GetClass(interfaces[i].interface)
       IN  IF found # "class"
           THEN /\ rpc' = "raised"
                /\ error' = found
                /\ events' = Append(events, <<"get_class", i>>)
                /\ UNCHANGED <<instances, cur>>
           ELSE \E cls \in SourceClasses, valid \in BOOLEAN, reachable \in BOOLEAN :
                   /\ ~valid => reachable
                   /\ ~ConnectsInInit(cls) => reachable
                   /\ events' = events \o <<<<"get_class", i>>, <<"construct", i>>>>
                                       \o (IF valid /\ ConnectsInInit(cls)
                                           THEN <<<<"connect", i>>>> ELSE <<>>)
                   /\ IF ~valid
                      THEN /\ rpc' = "raised"
                           /\ error' = "ValidationError"
                           /\ UNCHANGED <<instances, cur>>
                      ELSE IF ~reachable
                      THEN /\ rpc' = "raised"
                           /\ error' = "SSHException"
                           /\ UNCHANGED <<instances, cur>>
                      ELSE /\ instances' = Append(instances, i)
                           /\ cur' = cur + 1
                           /\ UNCHANGED <<rpc, error>>
    /\ UNCHANGED <<graceful, job_enabled, interfaces, storage_ok, configs, src_state,
                   reported, calls>>
    /\ UNCHANGED <<uploadVars, storageVars, backupVars, configVars, maskVars>>

\* `for config in configs` is exhausted, `for instance in instances` starts
InstantiateEnd ==
    /\ rpc = "instantiate"
    /\ cur > Len(configs)
    /\ rpc' = "validate"
    /\ cur' = 1
    /\ UNCHANGED <<graceful, job_enabled, interfaces, storage_ok, configs, instances,
                   src_state, reported, error, calls, events>>
    /\ UNCHANGED <<uploadVars, storageVars, backupVars, configVars, maskVars>>

\* the except clause re-raises whatever the setting
HandlerRaises_Always == TRUE

\* the except clause never re-raises
HandlerRaises_Never == FALSE

\* `else: raise` of the except clause: taken unless graceful errors are on
HandlerRaises == ~graceful

\* except Exception as exc: log and go on to the next instance, or re-raise
Handle(i) ==
    IF HandlerRaises
    THEN /\ rpc' = "raised"
         /\ error' = "Exception"
         /\ UNCHANGED <<reported, cur>>
    ELSE /\ reported' = Append(reported, i)
         /\ rpc' = "validate"
         /\ cur' = cur + 1
         /\ UNCHANGED error

\* instance.validate()
Validate ==
    /\ rpc = "validate"
    /\ cur <= Len(instances)
    /\ LET i == instances[cur]
       IN  /\ calls' = Append(calls, <<"validate", i>>)
           /\ \E ok \in BOOLEAN :
                 IF ok
                 THEN /\ src_state' = [src_state EXCEPT ![i] = "Validated"]
                      /\ rpc' = "backup"
                      /\ UNCHANGED <<reported, cur, error>>
                 ELSE /\ src_state' = [src_state EXCEPT ![i] = "Failed"]
                      /\ Handle(i)
    /\ UNCHANGED <<graceful, job_enabled, interfaces, storage_ok, configs, instances,
                   events>>
    /\ UNCHANGED <<uploadVars, storageVars, backupVars, configVars, maskVars>>

\* backup() is the first statement of the try block: validate() is not called
BackupReached_NoValidate ==
    \/ rpc = "backup"
    \/ rpc = "validate" /\ cur <= Len(instances)

\* control is at instance.backup(), the statement after instance.validate()
BackupReached == rpc = "backup"

\* instance.backup() is called
BackupCall ==
    /\ BackupReached
    /\ calls' = Append(calls, <<"backup", instances[cur]>>)
    /\ src_state' = [src_state EXCEPT ![instances[cur]] = "Running"]
    /\ rpc' = "running"
    /\ UNCHANGED <<graceful, job_enabled, interfaces, storage_ok, configs, instances,
                   cur, reported, error, events>>
    /\ UNCHANGED <<uploadVars, storageVars, backupVars, configVars, maskVars>>

\* instance.backup() returns or raises
BackupEnd ==
    /\ rpc = "running"
    /\ LET i == instances[cur]
       IN  \E ok \in BOOLEAN :
              IF ok
              THEN /\ src_state' = [src_state EXCEPT ![i] = "Succeeded"]
                   /\ rpc' = "validate"
                   /\ cur' = cur + 1
                   /\ UNCHANGED <<reported, error>>
              ELSE /\ src_state' = [src_state EXCEPT ![i] = "Failed"]
                   /\ Handle(i)
    /\ UNCHANGED <<graceful, job_enabled, interfaces, storage_ok, configs, instances,
                   calls, events>>
    /\ UNCHANGED <<uploadVars, storageVars, backupVars, configVars, maskVars>>

\* `for instance in instances` is exhausted: run_backup returns
RunEnd ==
    /\ rpc = "validate"
    /\ cur > Len(instances)
    /\ rpc' = "returned"
    /\ UNCHANGED <<graceful, job_enabled, interfaces, storage_ok, configs, instances,
                   cur, src_state, reported, error, calls, events>>
    /\ UNCHANGED <<uploadVars, storageVars, backupVars, configVars, maskVars>>

\* ------------------------------------- backup() of a directories interface
\* a directory of config.directories: dest joined with name is the destination
\* path; retention is config.count of its RetentionConfig, 0 when it is None
DirectoryConfigs == [dest : Paths, retention : 0..MaxKeep]

\* what the storage holds before the backup
InitialStores ==
    { {},
      { <<"a", "/", "b", "_", "1", ".", "t", "a", "r">>,
        <<"a", "/", "b", "_", "2", ".", "t", "a", "r">> } }

\* dst_backup: the destination path joined with get_backup_name(name) and the
\* extension of the archive
DstBackup(path) ==
    IF path = PathA THEN <<"a", "/", "b", "_", "3", ".", "t", "a", "r", ".", "g", "z">>
    ELSE <<"a", "2", "/", "b", "_", "9", ".", "t", "a", "r">>

\* how self.storage.upload can end.  azure: the commit stores the whole blob or
\* raises.  local: open(dst, "wb") raises, or the file is created and upload
\* returns, with every chunk written or with the chunks of failed workers missing
UploadOutcomes(s) ==
    IF s = "azure" THEN {"complete", "raised"}
    ELSE {"complete", "incomplete", "raised"}

IsSsh == src_class = "SSHDirectoryBackupInterface"

\* backup() was not called
BackupIdle ==
    /\ src_class = "LocalDirectoryBackupInterface"
    /\ directories = <<>>
    /\ bpc = "idle"
    /\ dcur = 0
    /\ tmp_files = {}
    /\ sftp_open = 0
    /\ dst_exists = {}
    /\ exists_ret = <<>>
    /\ upload_ret = <<>>
    /\ remove_failed = {}
    /\ berror = "none"
    /\ steps = <<>>

\* the exception is swallowed and the loop goes on with the next directory
BackupRaise_Continue(stmt) ==
    /\ bpc' = "archive"
    /\ berror' = stmt
    /\ dcur' = dcur + 1

\* an exception of statement `stmt` leaves backup()
BackupRaise(stmt) ==
    /\ bpc' = "raised"
    /\ berror' = stmt
    /\ UNCHANGED dcur

\* the retention is applied to every directory
HasRetention_Always(d) == TRUE

\* `if directory.retention:`
HasRetention(d) == directories[d].retention # 0

\* the iteration skips a directory
NextDirectory_SkipOne ==
    /\ bpc' = "archive"
    /\ dcur' = dcur + 2
    /\ UNCHANGED berror

\* the body of the loop ended for this directory: the next iteration
NextDirectory ==
    /\ bpc' = "archive"
    /\ dcur' = dcur + 1
    /\ UNCHANGED berror

\* archive, extension = self.archive(directory, src).  local:
\* shutil.make_archive returns the archive or raises.  ssh: exec_command of tar
\* raises, or tar ran and its exit status is read and dropped
Archive ==
    /\ bpc = "archive"
    /\ dcur <= Len(directories)
    /\ steps' = Append(steps, <<"archive", dcur>>)
    /\ \E ran \in BOOLEAN, produced \in BOOLEAN :
          /\ ~ran => ~produced
          /\ (~IsSsh /\ ran) => produced
          /\ tmp_files' = IF produced THEN tmp_files \cup {dcur} ELSE tmp_files
          /\ IF ran
             THEN /\ bpc' = IF IsSsh THEN "open_sftp" ELSE "exists"
                  /\ UNCHANGED <<dcur, berror>>
             ELSE BackupRaise("archive")
    /\ UNCHANGED <<src_class, directories, sftp_open, dst_exists, exists_ret,
                   upload_ret, remove_failed>>
    /\ UNCHANGED <<uploadVars, storageVars, runVars, configVars, maskVars>>

\* ssh: sftp = self.client.open_sftp()
OpenSftp ==
    /\ bpc = "open_sftp"
    /\ steps' = Append(steps, <<"open_sftp", dcur>>)
    /\ \E ok \in BOOLEAN :
          IF ok
          THEN /\ sftp_open' = sftp_open + 1
               /\ bpc' = "exists"
               /\ UNCHANGED <<dcur, berror>>
          ELSE /\ BackupRaise("open_sftp")
               /\ UNCHANGED sftp_open
    /\ UNCHANGED <<src_class, directories, tmp_files, dst_exists, exists_ret,
                   upload_ret, remove_failed>>
    /\ UNCHANGED <<uploadVars, storageVars, runVars, configVars, maskVars>>

\* `if not self.storage.exists(path=dst):`
Exists ==
    /\ bpc = "exists"
    /\ steps' = Append(steps, <<"exists", dcur>>)
    /\ \E ok \in BOOLEAN :
          IF ok
          THEN LET found == directories[dcur].dest \in dst_exists
               IN  /\ exists_ret' = [exists_ret EXCEPT ![dcur] =
                                       IF found THEN "true" ELSE "false"]
                   /\ bpc' = IF found THEN "upload" ELSE "create"
                   /\ UNCHANGED <<dcur, berror>>
          ELSE /\ BackupRaise("exists")
               /\ UNCHANGED exists_ret
    /\ UNCHANGED <<src_class, directories, tmp_files, sftp_open, dst_exists,
                   upload_ret, remove_failed>>
    /\ UNCHANGED <<uploadVars, storageVars, runVars, configVars, maskVars>>

\* self.storage.create(path=dst)
Create ==
    /\ bpc = "create"
    /\ steps' = Append(steps, <<"create", dcur>>)
    /\ \E ok \in BOOLEAN :
          IF ok
          THEN /\ dst_exists' = dst_exists \cup {directories[dcur].dest}
               /\ bpc' = "upload"
               /\ UNCHANGED <<dcur, berror>>
          ELSE /\ BackupRaise("create")
               /\ UNCHANGED dst_exists
    /\ UNCHANGED <<src_class, directories, tmp_files, sftp_open, exists_ret,
                   upload_ret, remove_failed>>
    /\ UNCHANGED <<uploadVars, storageVars, runVars, configVars, maskVars>>

\* local: `with open(archive, "rb") as file_obj:` around self.storage.upload.
\* ssh: `try: with sftp.file(archive, "rb") as remote_file:` around
\* self.storage.upload, which is not reached when the archive is not there,
\* and `finally: sftp.close()`
Upload ==
    /\ bpc = "upload"
    /\ LET opened == dcur \in tmp_files
       IN  /\ steps' = steps \o (IF opened THEN <<<<"upload", dcur>>>> ELSE <<>>)
                             \o (IF IsSsh THEN <<<<"close_sftp", dcur>>>> ELSE <<>>)
           /\ sftp_open' = IF IsSsh THEN sftp_open - 1 ELSE sftp_open
           /\ IF opened
              THEN \E outcome \in UploadOutcomes(sink) :
                      /\ upload_ret' = [upload_ret EXCEPT ![dcur] = outcome]
                      /\ IF outcome = "raised"
                         THEN BackupRaise("upload") /\ UNCHANGED stored
                         ELSE /\ stored' = stored \cup {DstBackup(directories[dcur].dest)}
                              /\ bpc' = "remove"
                              /\ UNCHANGED <<dcur, berror>>
              ELSE /\ BackupRaise("open")
                   /\ UNCHANGED <<upload_ret, stored>>
    /\ UNCHANGED <<src_class, directories, tmp_files, dst_exists, exists_ret,
                   remove_failed>>
    /\ UNCHANGED <<list_calls, last_path, last_list, prev_list, ret_status,
                   ret_listing, ret_count, ret_calls>>
    /\ UNCHANGED <<uploadVars, runVars, configVars, maskVars>>

\* local: os.remove(archive), which raises when the file cannot be removed.
\* ssh: exec_command of rm raises, or rm ran and its exit status is read and
\* dropped.  Then `if directory.retention:`
Remove ==
    /\ bpc = "remove"
    /\ steps' = Append(steps, <<"remove", dcur>>)
    /\ \E ran \in BOOLEAN, removed \in BOOLEAN :
          /\ ~ran => ~removed
          /\ tmp_files' = IF removed THEN tmp_files \ {dcur} ELSE tmp_files
          /\ remove_failed' = IF removed THEN remove_failed
                              ELSE remove_failed \cup {dcur}
          /\ IF ran /\ (removed \/ IsSsh)
             THEN IF HasRetention(dcur)
                  THEN bpc' = "retention" /\ UNCHANGED <<dcur, berror>>
                  ELSE NextDirectory
             ELSE BackupRaise("remove")
    /\ UNCHANGED <<src_class, directories, sftp_open, dst_exists, exists_ret,
                   upload_ret>>
    /\ UNCHANGED <<uploadVars, storageVars, runVars, configVars, maskVars>>

\* self.storage.retention(path=dst, config=directory.retention)
RetentionStep ==
    /\ bpc = "retention"
    /\ steps' = Append(steps, <<"retention", dcur>>)
    /\ RetentionCall(directories[dcur].dest, directories[dcur].retention)
    /\ IF ret_status' = "returned" THEN NextDirectory ELSE BackupRaise("retention")
    /\ UNCHANGED <<src_class, directories, tmp_files, sftp_open, dst_exists,
                   exists_ret, upload_ret, remove_failed>>
    /\ UNCHANGED <<uploadVars, runVars, configVars, maskVars>>

\* `for directory in self.config.directories` is exhausted: backup() returns
BackupReturn ==
    /\ bpc = "archive"
    /\ dcur > Len(directories)
    /\ bpc' = "returned"
    /\ UNCHANGED <<src_class, directories, dcur, tmp_files, sftp_open, dst_exists,
                   exists_ret, upload_ret, remove_failed, berror, steps>>
    /\ UNCHANGED <<uploadVars, storageVars, runVars, configVars, maskVars>>

\* ------------------------------- run_backup with the backup() of each source
\* the source at position i was constructed as an ssh interface: its
\* constructor connected
IsSshInstance(i) == \E e \in 1..Len(events) : events[e] = <<"connect", i>>

\* a directory stored under a2 without retention and one stored under a of
\* which the latest backup is kept
DirPlain == [dest |-> PathA2, retention |-> 0]
DirKeepOne == [dest |-> PathA, retention |-> 1]

\* the directories a source can be configured with
JobDirectories ==
    {<<>>, <<DirPlain>>, <<DirKeepOne>>, <<DirPlain, DirKeepOne>>,
     <<DirKeepOne, DirPlain>>}

\* instance.backup() is called: control enters backup() of the current
\* instance, whose loop over self.config.directories starts
BackupStart ==
    /\ BackupReached
    /\ bpc = "idle"
    /\ calls' = Append(calls, <<"backup", instances[cur]>>)
    /\ src_state' = [src_state EXCEPT ![instances[cur]] = "Running"]
    /\ rpc' = "running"
    /\ src_class' = IF IsSshInstance(instances[cur])
                    THEN "SSHDirectoryBackupInterface"
                    ELSE "LocalDirectoryBackupInterface"
    /\ directories' \in JobDirectories
    /\ bpc' = "archive"
    /\ dcur' = 1
    /\ tmp_files' = {}
    /\ sftp_open' = 0
    /\ exists_ret' = [d \in 1..Len(directories') |-> "none"]
    /\ upload_ret' = [d \in 1..Len(directories') |-> "none"]
    /\ remove_failed' = {}
    /\ berror' = "none"
    /\ steps' = <<>>
    /\ UNCHANGED dst_exists
    /\ UNCHANGED <<graceful, job_enabled, interfaces, storage_ok, configs, instances,
                   cur, reported, error, events>>
    /\ UNCHANGED <<uploadVars, storageVars, configVars, maskVars>>

\* instance.backup() has returned, or raised into the except clause
BackupFinish ==
    /\ rpc = "running"
    /\ bpc \in {"returned", "raised"}
    /\ LET i == instances[cur]
       IN  IF bpc = "returned"
           THEN /\ src_state' = [src_state EXCEPT ![i] = "Succeeded"]
                /\ rpc' = "validate"
                /\ cur' = cur + 1
                /\ UNCHANGED <<reported, error>>
           ELSE /\ src_state' = [src_state EXCEPT ![i] = "Failed"]
                /\ Handle(i)
    /\ bpc' = "idle"
    /\ UNCHANGED <<src_class, directories, dcur, tmp_files, sftp_open, dst_exists,
                   exists_ret, upload_ret, remove_failed, berror, steps>>
    /\ UNCHANGED <<graceful, job_enabled, interfaces, storage_ok, configs, instances,
                   calls, events>>
    /\ UNCHANGED <<uploadVars, storageVars, configVars, maskVars>>

\* ------------------------------------------------------- load_config(path)
\* environment variables a vault can be configured to set
EnvVars == {"ENV_ONE", "ENV_TWO"}

\* a vault of the document: its interface identifier and the destination
\* variables of its `secrets`
VaultConfigs == [interface : {"known", "unknown_module"}, secrets : SUBSET EnvVars]

\* value of a variable the environment does not hold
Unset == <<"unset", 0>>

\* the statements of load_config after the path checks, in order
LoadOrder_SubFirst == <<"load_yaml", "sub_yaml", "load_vault", "Config">>

LoadOrder == <<"load_yaml", "load_vault", "sub_yaml", "Config">>

\* load_config was not called
ConfigIdle ==
    /\ vaults = <<>>
    /\ placeholders = {}
    /\ env = [v \in EnvVars |-> Unset]
    /\ cstep = 0
    /\ vcur = 0
    /\ substituted = <<>>
    /\ cerror = "none"

CStmt == IF cstep \in 1..Len(LoadOrder) THEN LoadOrder[cstep] ELSE "none"

\* config = load_yaml(path)
LoadYaml ==
    /\ CStmt = "load_yaml"
    /\ \E ok \in BOOLEAN :
          IF ok THEN cstep' = cstep + 1 /\ UNCHANGED cerror
          ELSE cstep' = 0 /\ cerror' = "YAMLError"
    /\ vcur' = 1
    /\ UNCHANGED <<vaults, placeholders, env, substituted>>
    /\ UNCHANGED <<uploadVars, storageVars, runVars, backupVars, maskVars>>

\* os.environ[env_var_name] = value for every item of `secrets`
SetAll(e, names, value) == [v \in EnvVars |-> IF v \in names THEN value ELSE e[v]]

\* one iteration of `for vault in config.get("vaults", [])`: get_class,
\* the constructor, then os.environ[env_var_name] = get_secret(secret_name) for
\* every item of secrets; any of them can raise
LoadVault ==
    /\ CStmt = "load_vault"
    /\ vcur <= Len(vaults)
    /\ IF GetClass(vaults[vcur].interface) # "class"
       THEN /\ cstep' = 0
            /\ cerror' = GetClass(vaults[vcur].interface)
            /\ UNCHANGED <<env, vcur>>
       ELSE \E fetched \in SUBSET vaults[vcur].secrets :
               /\ env' = SetAll(env, fetched, <<"vault", vcur>>)
               /\ IF fetched = vaults[vcur].secrets
                  THEN vcur' = vcur + 1 /\ UNCHANGED <<cstep, cerror>>
                  ELSE cstep' = 0 /\ cerror' = "Exception" /\ UNCHANGED vcur
    /\ UNCHANGED <<vaults, placeholders, substituted>>
    /\ UNCHANGED <<uploadVars, storageVars, runVars, backupVars, maskVars>>

\* the loop over the vaults is exhausted
LoadVaultEnd ==
    /\ CStmt = "load_vault"
    /\ vcur > Len(vaults)
    /\ cstep' = cstep + 1
    /\ UNCHANGED <<vaults, placeholders, env, vcur, substituted, cerror>>
    /\ UNCHANGED <<uploadVars, storageVars, runVars, backupVars, maskVars>>

\* config = sub_yaml(config): every ${NAME} is replaced by os.getenv(NAME)
SubYaml ==
    /\ CStmt = "sub_yaml"
    /\ substituted' = [v \in placeholders |-> env[v]]
    /\ cstep' = cstep + 1
    /\ UNCHANGED <<vaults, placeholders, env, vcur, cerror>>
    /\ UNCHANGED <<uploadVars, storageVars, runVars, backupVars, maskVars>>

\* config = Config(**config): the validation passes or raises
ConfigValidate ==
    /\ CStmt = "Config"
    /\ \E ok \in BOOLEAN :
          IF ok THEN cstep' = cstep + 1 /\ UNCHANGED cerror
          ELSE cstep' = 0 /\ cerror' = "ValidationError"
    /\ UNCHANGED <<vaults, placeholders, env, vcur, substituted>>
    /\ UNCHANGED <<uploadVars, storageVars, runVars, backupVars, maskVars>>

\* ------------------------------------------------ mask_sensitive_data(data)
\* settings.LOG_SENSITIVE_KEYS
LOG_SENSITIVE_KEYS ==
    { <<"P", "A", "S", "S", "W", "O", "R", "D">>,
      <<"S", "E", "C", "R", "E", "T">>,
      <<"T", "O", "K", "E", "N">>,
      <<"K", "E", "Y">>,
      <<"D", "S", "N">> }

\* the keys of the dictionaries: api, key, Token, passwords
MaskKeys ==
    << <<"a", "p", "i">>,
       <<"k", "e", "y">>,
       <<"T", "o", "k", "e", "n">>,
       <<"p", "a", "s", "s", "w", "o", "r", "d", "s">> >>

UpperChar(c) ==
    CASE c = "a" -> "A"
      [] c = "d" -> "D"
      [] c = "e" -> "E"
      [] c = "i" -> "I"
      [] c = "k" -> "K"
      [] c = "n" -> "N"
      [] c = "o" -> "O"
      [] c = "p" -> "P"
      [] c = "r" -> "R"
      [] c = "s" -> "S"
      [] c = "w" -> "W"
      [] c = "y" -> "Y"
      [] OTHER -> c

\* str.upper()
Upper(s) == [i \in 1..Len(s) |-> UpperChar(s[i])]

\* `sub in s` for two strings
Contains(sub, s) ==
    \E i \in 1..(Len(s) - Len(sub) + 1) : SubSeq(s, i, i + Len(sub) - 1) = sub

\* any(s in key.upper() for s in sensitive)
IsSensitive(key) == \E m \in LOG_SENSITIVE_KEYS : Contains(m, Upper(key))

\* a value: a string, a dictionary (`kids` holds its items as <<key, value>>
\* in iteration order) or a list (`kids` holds its items under an empty key)
StrValue(text) == [t |-> "str", s |-> text, kids |-> <<>>]
DictValue(items) == [t |-> "dict", s |-> "", kids |-> items]
ListValue(items) == [t |-> "list", s |-> "", kids |-> [i \in 1..Len(items) |-> <<<<>>, items[i]>>]]

\* masked[key] = "********"
Masked == StrValue("********")

\* masked[key] after the body of `for key, value in masked.items()`:
\* `if any(...): masked[key] = "********"`, then
\* `if isinstance(value, dict): masked[key] = mask_sensitive_data(value)`, then
\* `if isinstance(value, list): masked[key] = [mask_sensitive_data(item) ...]`,
\* each testing the original value
MaskValue(key, value, asDict, asList) ==
    LET first == IF IsSensitive(key) THEN Masked ELSE value
        second == IF value.t = "dict" THEN asDict ELSE first
    IN  IF value.t = "list" THEN asList ELSE second

\* mask_sensitive_data(data) for a string or a dictionary; the items of a
\* list are strings or dictionaries (data.copy() followed by masked.items()
\* raises AttributeError for any other item)
RECURSIVE MaskSensitiveData(_)
MaskSensitiveData(data) ==
    CASE data.t = "str" -> data
      [] data.t = "dict" ->
            DictValue([i \in 1..Len(data.kids) |->
                LET key == data.kids[i][1]
                    value == data.kids[i][2]
                IN  <<key,
                      MaskValue(key, value,
                          IF value.t = "dict" THEN MaskSensitiveData(value) ELSE value,
                          IF value.t = "list"
                          THEN ListValue([j \in 1..Len(value.kids) |->
                                   MaskSensitiveData(value.kids[j][2])])
                          ELSE value)>>])

\* the strings, flat dictionaries, lists and values of a configuration
MaskStrings == {StrValue("hunter2"), StrValue("user1")}

FlatDicts ==
    {DictValue(<<<<MaskKeys[k], v>>>>) : k \in 1..Len(MaskKeys), v \in MaskStrings}

MaskItems == MaskStrings \cup FlatDicts

MaskLists ==
    UNION {{ListValue(items) : items \in [1..n -> MaskItems]} : n \in 0..MaxListLen}

MaskValues == MaskStrings \cup FlatDicts \cup MaskLists

\* the dictionaries with at most MaxMaskKeys of the keys, in the order of MaskKeys
MaskInputs ==
    UNION {{DictValue([i \in 1..Len(ks) |-> <<MaskKeys[ks[i]], f[i]>>]) :
                f \in [1..Len(ks) -> MaskValues]} :
           ks \in {q \in UNION {[1..n -> 1..Len(MaskKeys)] : n \in 1..MaxMaskKeys} :
                      \A i, j \in 1..Len(q) : i < j => q[i] < q[j]}}

MaskIdle ==
    /\ mask_data = StrValue("")
    /\ mask_ret = StrValue("")
    /\ mpc = "idle"

\* a call of mask_sensitive_data(data) returns
MaskCall ==
    /\ mpc = "called"
    /\ mask_ret' = MaskSensitiveData(mask_data)
    /\ mpc' = "returned"
    /\ UNCHANGED mask_data
    /\ UNCHANGED <<uploadVars, storageVars, runVars, backupVars, configVars>>

\* ---------------------------------------------------------- specifications
\* one upload call of a storage interface
InitUpload ==
    /\ sink \in Sinks
    /\ file_size \in 0..MaxFileSize
    /\ file = SourceBytes(file_size)
    /\ chunk_size \in 1..MaxChunkSize
    /\ chunk_workers \in 1..MaxWorkers
    /\ file_size <= MaxChunks * chunk_size
    /\ UploadIdle
    /\ stored = {}
    /\ StorageIdle
    /\ RunIdle
    /\ BackupIdle
    /\ ConfigIdle
    /\ MaskIdle

NextUpload ==
    \/ Begin
    \/ Submit
    \/ LoopEnd
    \/ Join
    \/ Commit
    \/ \E t \in 1..Len(futures) : UploadChunk(t)

SpecUpload == InitUpload /\ [][NextUpload]_vars

\* the same upload when the scheduler never stops every thread for good: while
\* the caller or a worker can take a step, some step is taken
InitUploadFair ==
    /\ InitUpload
    /\ file_size <= MaxFairChunks * chunk_size

SpecUploadFair == InitUploadFair /\ [][NextUpload]_vars /\ WF_vars(NextUpload)

\* list and retention calls on a storage interface that holds some entries
InitStorage ==
    /\ sink \in Sinks
    /\ file = <<>>
    /\ file_size = 0
    /\ chunk_size = 1
    /\ chunk_workers = 1
    /\ UploadIdle
    /\ stored \in SUBSET Entries
    /\ Cardinality(stored) <= MaxEntries
    /\ StorageIdle
    /\ RunIdle
    /\ BackupIdle
    /\ ConfigIdle
    /\ MaskIdle

NextStorage ==
    \/ \E path \in Paths : List(path)
    \/ \E path \in Paths, count \in 1..MaxCount : Retention(path, count)

SpecStorage == InitStorage /\ [][NextStorage]_vars

\* one run_backup call
InitRun ==
    /\ sink \in Sinks
    /\ file = <<>>
    /\ file_size = 0
    /\ chunk_size = 1
    /\ chunk_workers = 1
    /\ UploadIdle
    /\ stored = {}
    /\ StorageIdle
    /\ graceful \in BOOLEAN
    /\ job_enabled \in BOOLEAN
    /\ \E n \in 0..MaxInterfaces : interfaces \in [1..n -> InterfaceConfigs]
    /\ storage_ok \in Idents
    /\ rpc = "app"
    /\ configs = <<>>
    /\ instances = <<>>
    /\ cur = 0
    /\ src_state = [i \in 1..Len(interfaces) |-> "Pending"]
    /\ reported = <<>>
    /\ error = "none"
    /\ calls = <<>>
    /\ events = <<>>
    /\ BackupIdle
    /\ ConfigIdle
    /\ MaskIdle

NextRun ==
    \/ RunBackups
    \/ ResolveStorage
    \/ Filter
    \/ Instantiate
    \/ InstantiateEnd
    \/ Validate
    \/ BackupCall
    \/ BackupEnd
    \/ RunEnd

SpecRun == InitRun /\ [][NextRun]_vars

\* one backup() call of a directories backup interface
InitBackup ==
    /\ sink \in Sinks
    /\ file = <<>>
    /\ file_size = 0
    /\ chunk_size = 1
    /\ chunk_workers = 1
    /\ UploadIdle
    /\ stored \in InitialStores
    /\ StorageIdle
    /\ RunIdle
    /\ ConfigIdle
    /\ MaskIdle
    /\ src_class \in SourceClasses
    /\ \E n \in 0..MaxDirs : directories \in [1..n -> DirectoryConfigs]
    /\ bpc = "archive"
    /\ dcur = 1
    /\ tmp_files = {}
    /\ sftp_open = 0
    /\ dst_exists \in SUBSET Paths
    /\ exists_ret = [d \in 1..Len(directories) |-> "none"]
    /\ upload_ret = [d \in 1..Len(directories) |-> "none"]
    /\ remove_failed = {}
    /\ berror = "none"
    /\ steps = <<>>

NextBackup ==
    \/ Archive
    \/ OpenSftp
    \/ Exists
    \/ Create
    \/ Upload
    \/ Remove
    \/ RetentionStep
    \/ BackupReturn

SpecBackup == InitBackup /\ [][NextBackup]_vars

\* one run_backup call in which every source runs its backup()
InitJob ==
    /\ sink \in Sinks
    /\ file = <<>>
    /\ file_size = 0
    /\ chunk_size = 1
    /\ chunk_workers = 1
    /\ UploadIdle
    /\ stored = {}
    /\ StorageIdle
    /\ graceful \in BOOLEAN
    /\ job_enabled = TRUE
    /\ \E n \in 1..MaxSources :
          interfaces \in [1..n -> [enabled : BOOLEAN, interface : {"known"}]]
    /\ storage_ok = "known"
    /\ rpc = "app"
    /\ configs = <<>>
    /\ instances = <<>>
    /\ cur = 0
    /\ src_state = [i \in 1..Len(interfaces) |-> "Pending"]
    /\ reported = <<>>
    /\ error = "none"
    /\ calls = <<>>
    /\ events = <<>>
    /\ BackupIdle
    /\ ConfigIdle
    /\ MaskIdle

NextJob ==
    \/ RunBackups
    \/ ResolveStorage
    \/ Filter
    \/ Instantiate
    \/ InstantiateEnd
    \/ Validate
    \/ BackupStart
    \/ Archive
    \/ OpenSftp
    \/ Exists
    \/ Create
    \/ Upload
    \/ Remove
    \/ RetentionStep
    \/ BackupReturn
    \/ BackupFinish
    \/ RunEnd

SpecJob == InitJob /\ [][NextJob]_vars

\* one load_config call
InitConfig ==
    /\ sink \in Sinks
    /\ file = <<>>
    /\ file_size = 0
    /\ chunk_size = 1
    /\ chunk_workers = 1
    /\ UploadIdle
    /\ stored = {}
    /\ StorageIdle
    /\ RunIdle
    /\ BackupIdle
    /\ MaskIdle
    /\ \E n \in 0..MaxVaults : vaults \in [1..n -> VaultConfigs]
    /\ placeholders \in SUBSET EnvVars
    /\ env \in [EnvVars -> {Unset, <<"os", 0>>}]
    /\ cstep = 1
    /\ vcur = 0
    /\ substituted = <<>>
    /\ cerror = "none"

NextConfig ==
    \/ LoadYaml
    \/ LoadVault
    \/ LoadVaultEnd
    \/ SubYaml
    \/ ConfigValidate

SpecConfig == InitConfig /\ [][NextConfig]_vars

\* one call of mask_sensitive_data on a configuration dictionary
InitMask ==
    /\ sink = "local"
    /\ file = <<>>
    /\ file_size = 0
    /\ chunk_size = 1
    /\ chunk_workers = 1
    /\ UploadIdle
    /\ stored = {}
    /\ StorageIdle
    /\ RunIdle
    /\ BackupIdle
    /\ ConfigIdle
    /\ mask_data \in MaskInputs
    /\ mask_ret = StrValue("")
    /\ mpc = "called"

NextMask == MaskCall

SpecMask == InitMask /\ [][NextMask]_vars


\* ------------------------------------------------------------ properties
AllDone == \A t \in 1..Len(futures) : futures[t].st = "done"
SomeFailed == \E t \in 1..Len(futures) : futures[t].st = "failed"

\* the loop over the range has ended
LoopDone == upc \in {"join", "commit", "returned"} \/ commit_calls > 0

\* C1: commit_block_list is called only for an upload whose chunks were all
\* read and staged successfully; after a failed chunk it is never called
C1_CommitOnlyAfterAllStaged == commit_calls > 0 => AllDone

\* C2: upload never returns normally after a chunk worker failed
C2_UploadFailsWhenChunkFailed == upc = "returned" => ~SomeFailed

\* the offsets of the partition of [0, file_size)
PartitionOffsets == {o \in 0..(file_size - 1) : o % chunk_size = 0}

DigitValue(c) == CHOOSE d \in 0..9 : DigitChars[d + 1] = c

\* int(id)
RECURSIVE IdOffset(_)
IdOffset(id) ==
    IF id = <<>> THEN 0
    ELSE 10 * IdOffset(SubSeq(id, 1, Len(id) - 1)) + DigitValue(id[Len(id)])

\* C3: whatever the order in which the workers finish, the list handed to
\* commit is strictly ascending by chunk offset and holds the identifier of
\* every chunk of the partition exactly once
C3_CommitListAscendingComplete ==
    (upc = "commit" \/ commit_calls > 0) =>
        /\ \A i, j \in 1..Len(blob_chunk_ids) :
              i < j => IdOffset(blob_chunk_ids[i]) < IdOffset(blob_chunk_ids[j])
        /\ Len(blob_chunk_ids) = Cardinality(PartitionOffsets)
        /\ \A o \in PartitionOffsets :
              Cardinality({k \in 1..Len(blob_chunk_ids) : blob_chunk_ids[k] = ChunkId(o)}) = 1

\* a commit of three chunks whose workers finished out of submit order
C3_Witness ==
    /\ commit_calls = 1
    /\ upc = "returned"
    /\ Len(blob_chunk_ids) = 3
    /\ completed = <<2, 3, 1>>

\* C4: after an upload in which every chunk operation succeeded, the stored
\* object (the committed blob, or the destination file) equals the source
C4_RoundTrip ==
    (upc = "returned" /\ AllDone) =>
        IF sink = "azure" THEN blob = <<file>> ELSE dst_file = file

\* a local upload of three chunks, written out of offset order
C4_Witness ==
    /\ upc = "returned"
    /\ sink = "local"
    /\ AllDone
    /\ file_size = 11
    /\ Len(futures) = 3
    /\ completed = <<2, 3, 1>>

Ceil(a, b) == (a + b - 1) \div b

RECURSIVE SumLengths(_)
SumLengths(fs) == IF fs = <<>> THEN 0 ELSE Head(fs).length + SumLengths(Tail(fs))

\* C5: the chunks are ceil(S/C) consecutive ranges at offsets 0, C, 2C, ..., each
\* min(C, S - offset) long; the lengths sum to S and the last is S - C*(count-1)
C5_Partition ==
    LoopDone =>
        LET n == Len(futures)
        IN  /\ n = Ceil(file_size, chunk_size)
            /\ \A k \in 1..n :
                  /\ futures[k].offset = (k - 1) * chunk_size
                  /\ futures[k].length = Min(chunk_size, file_size - futures[k].offset)
                  /\ futures[k].length >= 1
                  /\ k < n => futures[k].offset + futures[k].length = futures[k + 1].offset
            /\ SumLengths(futures) = file_size
            /\ n >= 1 => futures[n].length = file_size - chunk_size * (n - 1)

\* three chunks, the last one shorter than the chunk size
C5_Witness ==
    /\ LoopDone
    /\ Len(futures) = 3
    /\ futures[3].length < chunk_size
    /\ futures[3].offset = 10

\* C6 as stated: an upload always has at least one chunk, and an empty source
\* yields one zero-length chunk, one stage call and a committed list of length 1
C6_AtLeastOneChunk ==
    LoopDone =>
        /\ Len(futures) >= 1
        /\ (file_size = 0 /\ commit_calls > 0) =>
              (stage_calls = 1 /\ Len(blob_chunk_ids) = 1)

\* C6 amended: the chunk count is ceil(S/C): an empty source has no chunk, no
\* stage call and an empty committed list, and the stored object is empty; a
\* source of one byte or more has at least one chunk
C6_EmptySourceNoChunk ==
    LoopDone =>
        /\ file_size = 0 =>
              /\ futures = <<>>
              /\ stage_calls = 0
              /\ blob_chunk_ids = <<>>
              /\ upc = "returned" => IF sink = "azure" THEN blob = <<<<>>>> ELSE dst_file = <<>>
        /\ file_size > 0 => Len(futures) >= 1

\* an empty source was committed
C6_Witness ==
    /\ file_size = 0
    /\ sink = "azure"
    /\ upc = "returned"
    /\ commit_calls = 1

InSrcSection(t) == futures[t].st \in {"seek", "read"}
InDstSection(t) == futures[t].st \in {"dseek", "write"}

\* C7: at most one worker is between its seek and its read of the source, at
\* most one between its seek and its write of the destination, and no other
\* seek moves the handle in between
C7_SeekReadExclusive ==
    /\ Cardinality({t \in 1..Len(futures) : InSrcSection(t)}) <= 1
    /\ Cardinality({t \in 1..Len(futures) : InDstSection(t)}) <= 1
    /\ \A t \in 1..Len(futures) :
          /\ futures[t].st = "read" => file_pos = futures[t].offset
          /\ futures[t].st = "write" => dst_pos = futures[t].offset

\* one worker is about to write while another waits for the lock to read
C7_Witness ==
    \E t, u \in 1..Len(futures) :
        /\ futures[t].st = "write"
        /\ futures[u].st = "wait_src"
        /\ file_pos # futures[u].offset

\* C8: retention on a listing of N entries with count K calls delete once for
\* each entry at a position >= K, in list order, and for no other entry; when
\* it returns, exactly those N-K entries (none when K >= N) are gone
C8_RetentionDeletesTail ==
    ret_status # "none" =>
        LET n == Len(ret_listing)
            k == ret_count
        IN  /\ \A j \in 1..Len(ret_calls) :
                  k + j <= n /\ ret_calls[j] = ret_listing[k + j]
            /\ ret_status = "returned" =>
                  /\ Len(ret_calls) = IF k < n THEN n - k ELSE 0
                  /\ \A i \in (k + 1)..n : ret_listing[i] \notin stored
            /\ \A i \in 1..Min(k, n) : ret_listing[i] \in stored

\* four entries listed, count 2: two delete calls
C8_Witness ==
    /\ ret_status = "returned"
    /\ Len(ret_listing) = 4
    /\ ret_count = 2
    /\ Len(ret_calls) = 2

\* C9: two list calls on the same path and the same stored entries return the
\* same sequence, however the storage enumerates the entries
C9_ListDeterministic == prev_list # NoList => last_list = prev_list

Called(op, i) == \E c \in 1..Len(calls) : calls[c] = <<op, i>>

\* C10: with graceful errors on, no failure of validate() or backup() leaves
\* run_backup: the failed source is reported, every enabled source is
\* validated, every validated one is run, and run_backup returns normally
C10_GracefulContinues ==
    graceful =>
        /\ rpc = "raised" => calls = <<>>
        /\ \A k \in 1..Len(instances) :
              (rpc \in {"validate", "backup", "running"} /\ k < cur) =>
                  src_state[instances[k]] \in {"Succeeded", "Failed"}
        /\ rpc = "returned" =>
              /\ error = "none"
              /\ Range(instances) = {i \in 1..Len(interfaces) : interfaces[i].enabled}
              /\ \A i \in Range(instances) :
                    /\ Called("validate", i)
                    /\ src_state[i] \in {"Succeeded", "Failed"}
                    /\ src_state[i] = "Failed" <=> i \in Range(reported)
                    /\ src_state[i] = "Succeeded" => Called("backup", i)
                    /\ ~Called("backup", i) => i \in Range(reported)

\* three sources: validate of the first and backup of the second raise, the
\* third succeeds
C10_Witness ==
    /\ graceful
    /\ rpc = "returned"
    /\ instances = <<1, 2, 3>>
    /\ reported = <<1, 2>>
    /\ calls = <<<<"validate", 1>>, <<"validate", 2>>, <<"backup", 2>>,
                 <<"validate", 3>>, <<"backup", 3>>>>
    /\ src_state[3] = "Succeeded"

\* the interfaces that follow position k of `instances`
LaterInstances(k) == {instances[j] : j \in (k + 1)..Len(instances)}

\* the position of interface i in `instances`
PositionOf(i) == CHOOSE k \in 1..Len(instances) : instances[k] = i

\* C11: with graceful errors off, a failure of validate() or backup() of a
\* source leaves run_backup as an exception, and no source after the failed
\* one is validated or run
C11_FailurePropagates ==
    ~graceful =>
        \A i \in 1..Len(interfaces) :
            src_state[i] = "Failed" =>
                /\ rpc = "raised"
                /\ error = "Exception"
                /\ reported = <<>>
                /\ calls[Len(calls)][2] = i
                /\ \A j \in LaterInstances(PositionOf(i)) :
                      /\ ~Called("validate", j)
                      /\ ~Called("backup", j)
                      /\ src_state[j] = "Pending"

\* three sources: the first succeeds, backup() of the second raises, the third
\* is never touched
C11_Witness ==
    /\ ~graceful
    /\ rpc = "raised"
    /\ instances = <<1, 2, 3>>
    /\ src_state = <<"Succeeded", "Failed", "Pending">>
    /\ calls = <<<<"validate", 1>>, <<"backup", 1>>, <<"validate", 2>>,
                 <<"backup", 2>>>>

\* the latest get_class call did not find a class
ResolutionFailed ==
    /\ events # <<>>
    /\ events[Len(events)][1] = "get_class"
    /\ GetClass(IdentOf(events[Len(events)][2])) # "class"

\* C12: an identifier of the storage or of an enabled source that cannot be
\* resolved, whatever its shape, makes run_backup raise ImportError before
\* validate() or backup() of any source is called, whatever the graceful setting
C12_UnresolvedIsImportError ==
    ResolutionFailed =>
        /\ rpc = "raised"
        /\ error = "ImportError"
        /\ calls = <<>>

\* the source state is past the other: Succeeded and Failed are both last
Rank(st) ==
    CASE st = "Pending" -> 0
      [] st = "Validated" -> 1
      [] st = "Running" -> 2
      [] OTHER -> 3

\* C13: backup() of a source is called only right after its validate()
\* returned; after a validate() that raised it is never called; and the state
\* of a source only moves forward, to Running only from Validated and to
\* Succeeded only from Running
C13_ValidateBeforeBackup ==
    /\ [](\A c \in 1..Len(calls) :
             calls[c][1] = "backup" =>
                 c > 1 /\ calls[c - 1] = <<"validate", calls[c][2]>>)
    /\ [](\A i \in 1..Len(interfaces) :
             /\ src_state[i] \in {"Running", "Succeeded"} => Called("backup", i)
             /\ src_state[i] # "Pending" => Called("validate", i)
             /\ Cardinality({c \in 1..Len(calls) : calls[c][2] = i}) <= 2)
    /\ [][\A i \in 1..Len(interfaces) :
             /\ src_state'[i] # src_state[i] =>
                   /\ Rank(src_state'[i]) > Rank(src_state[i])
                   /\ src_state'[i] = "Running" => src_state[i] = "Validated"
                   /\ src_state'[i] = "Succeeded" => src_state[i] = "Running"
             /\ (Called("backup", i)' /\ ~Called("backup", i)) =>
                   src_state[i] = "Validated"
             /\ (src_state[i] = "Failed" /\ ~Called("backup", i)) =>
                   ~Called("backup", i)']_vars

\* validate() of the first source raises and its backup() is never called,
\* the second is validated and run
C13_Witness ==
    /\ rpc = "returned"
    /\ instances = <<1, 2>>
    /\ src_state = <<"Failed", "Succeeded">>
    /\ calls = <<<<"validate", 1>>, <<"validate", 2>>, <<"backup", 2>>>>

\* interface i was resolved, constructed or connected
Touched(i) == \E e \in 1..Len(events) : events[e][2] = i

\* C14: a source with enabled = false is never resolved, constructed,
\* validated or run; with config.enabled = false nothing is resolved or
\* constructed and no source operation occurs; neither raises
C14_DisabledSkipped ==
    /\ \A i \in 1..Len(interfaces) :
          ~interfaces[i].enabled =>
              /\ ~Touched(i)
              /\ i \notin Range(configs)
              /\ i \notin Range(instances)
              /\ ~Called("validate", i)
              /\ ~Called("backup", i)
              /\ src_state[i] = "Pending"
    /\ ~job_enabled =>
          /\ rpc \in {"app", "skipped"}
          /\ events = <<>>
          /\ calls = <<>>
          /\ error = "none"

\* a disabled source whose identifier does not resolve, between two enabled
\* sources that are run
C14_Witness ==
    /\ job_enabled
    /\ Len(interfaces) = 3
    /\ ~interfaces[2].enabled
    /\ interfaces[2].interface = "unknown_module"
    /\ rpc = "returned"
    /\ instances = <<1, 3>>
    /\ src_state = <<"Succeeded", "Pending", "Succeeded">>

\* C18: resolving and constructing the storage and the sources opens no
\* connection, so no unreachable host makes run_backup raise before the first
\* validate()
C18_ConstructionWithoutIO ==
    /\ \A e \in 1..Len(events) : events[e][1] # "connect"
    /\ error # "SSHException"

\* statement `op` of the loop body was executed for directory d
Did(op, d) == \E k \in 1..Len(steps) : steps[k] = <<op, d>>

\* control left the upload of directory d
PastUpload(d) ==
    \/ d < dcur
    \/ d = dcur /\ bpc \in {"retention", "returned", "raised"}

\* C15: once the upload of a directory's archive was attempted, the removal
\* of the temporary archive is executed, whether the upload returned or raised
C15_ArchiveRemovedAfterUpload ==
    \A d \in 1..Len(directories) :
        (Did("upload", d) /\ PastUpload(d)) => Did("remove", d)

\* C16: when the temporary archive of a directory could not be removed after
\* its upload returned, backup() does not raise for it: the retention of that
\* directory and the later directories are still processed
C16_RemoveFailureNotFatal ==
    \A d \in remove_failed :
        /\ ~(bpc = "raised" /\ berror = "remove")
        /\ (d < dcur /\ directories[d].retention # 0) => Did("retention", d)

\* C17: an azure upload in which every chunk is staged calls stage_block once
\* per chunk, ceil(file_size / chunk_size) times in all, and commit_block_list
\* once; commit_block_list is never called while a work item is unfinished
C17_StagePerChunkCommitOnce ==
    sink = "azure" =>
        /\ commit_calls <= 1
        /\ (upc = "commit" \/ commit_calls > 0) =>
              /\ chunk_offset >= file_size
              /\ \A t \in 1..Len(futures) : Finished(futures[t].st)
        /\ \A t \in 1..Len(futures) :
              Cardinality({k \in 1..Len(completed) : completed[k] = t}) <= 1
        /\ (upc = "returned" /\ AllDone) =>
              /\ Len(futures) = Ceil(file_size, chunk_size)
              /\ stage_calls = Ceil(file_size, chunk_size)
              /\ Range(completed) = 1..Len(futures)
              /\ commit_calls = 1

\* eleven bytes in chunks of five: three stage calls by two workers, one commit
C17_Witness ==
    /\ sink = "azure"
    /\ file_size = 11
    /\ chunk_size = 5
    /\ chunk_workers = 2
    /\ upc = "returned"
    /\ AllDone
    /\ stage_calls = 3
    /\ commit_calls = 1
    /\ completed = <<2, 1, 3>>

\* the destination variables of the vaults of the document
Configured == UNION {vaults[k].secrets : k \in 1..Len(vaults)}

\* the last vault that sets variable v
LastVault(v) == Max({k \in 1..Len(vaults) : v \in vaults[k].secrets})

OrderedSteps == {"archive", "exists", "create", "upload", "remove", "retention"}

\* the statements executed for directory d, in execution order
StepsOf(d) ==
    LET mine == SelectSeq(steps, LAMBDA e : e[2] = d /\ e[1] \in OrderedSteps)
    IN  [k \in 1..Len(mine) |-> mine[k][1]]

\* the statements of a directory that is processed to the end
Expected(d) ==
    <<"archive", "exists">>
        \o (IF exists_ret[d] = "false" THEN <<"create">> ELSE <<>>)
        \o <<"upload", "remove">>
        \o (IF directories[d].retention # 0 THEN <<"retention">> ELSE <<>>)

IsPrefix(a, b) == Len(a) <= Len(b) /\ SubSeq(b, 1, Len(a)) = a

\* C20: the statements executed for a directory are, in this order, archive,
\* exists, create exactly when exists returned false, upload, removal of the
\* temporary archive, and retention exactly when the directory has a
\* retention; a directory the loop has passed went through all of them
C20_StepOrder ==
    \A d \in 1..Len(directories) :
        /\ IsPrefix(StepsOf(d), Expected(d))
        /\ exists_ret[d] = "none" => Len(StepsOf(d)) <= 2
        /\ d > dcur => StepsOf(d) = <<>>
        /\ (d < dcur \/ bpc = "returned") => StepsOf(d) = Expected(d)

\* two directories with the same destination, which did not exist: the first
\* has a retention, the second has none
C20_Witness ==
    /\ ~IsSsh
    /\ bpc = "returned"
    /\ Len(directories) = 2
    /\ directories[1] = [dest |-> PathA, retention |-> 1]
    /\ directories[2] = [dest |-> PathA, retention |-> 0]
    /\ steps = <<<<"archive", 1>>, <<"exists", 1>>, <<"create", 1>>, <<"upload", 1>>,
                 <<"remove", 1>>, <<"retention", 1>>, <<"archive", 2>>,
                 <<"exists", 2>>, <<"upload", 2>>, <<"remove", 2>>>>

\* C22: when upload has returned or raised, every work item has finished and
\* the lock is free; local: no work item is unfinished while the destination
\* handle is closed
C22_WorkersJoinedAtReturn ==
    /\ upc \in {"returned", "raised"} =>
          /\ \A t \in 1..Len(futures) : Finished(futures[t].st)
          /\ file_lock = 0
    /\ (sink = "local" /\ ~dst_open) =>
          \A t \in 1..Len(futures) : Finished(futures[t].st)

\* a local upload of three chunks by one worker returned, the second chunk
\* failed, and the destination handle is closed
C22_Witness ==
    /\ sink = "local"
    /\ chunk_workers = 1
    /\ upc = "returned"
    /\ ~dst_open
    /\ Len(futures) = 3
    /\ futures[1].st = "done"
    /\ futures[2].st = "failed"
    /\ futures[3].st = "done"

\* C23: the chunk id a submit gives a work item is the decimal offset padded
\* with zeros to 16 characters: it is computed from the offset alone, has that
\* width, gives the offset back, differs from the id of every other offset of
\* the upload, and the id of the smaller offset sorts before the id of the
\* larger; the ids of the earlier work items stay as they are
C23_ChunkIdOrdered ==
    [][Len(futures') > Len(futures) =>
          LET new == futures'[Len(futures')]
          IN  /\ new.chunk_id = ChunkId(new.offset)
              /\ Len(new.chunk_id) = CHUNK_ID_WIDTH
              /\ IdOffset(new.chunk_id) = new.offset
              /\ \A u \in 1..Len(futures) :
                    /\ futures'[u].chunk_id = futures[u].chunk_id
                    /\ futures[u].offset # new.offset =>
                          futures[u].chunk_id # new.chunk_id
                    /\ futures[u].offset < new.offset =>
                          StrLess(futures[u].chunk_id, new.chunk_id)
                    /\ new.offset < futures[u].offset =>
                          StrLess(new.chunk_id, futures[u].chunk_id)]_vars

\* chunks at offsets 0, 5 and 10: the last offset has two digits
C23_Witness ==
    /\ sink = "azure"
    /\ upc = "returned"
    /\ Len(futures) = 3
    /\ futures[2].offset = 5
    /\ futures[3].offset = 10
    /\ blob_chunk_ids = <<ChunkId(0), ChunkId(5), ChunkId(10)>>

\* statements a work item in state st still has to execute
StepsLeft(st) ==
    CASE st = "queued" -> 7
      [] st = "wait_src" -> 6
      [] st = "seek" -> 5
      [] st = "read" -> 4
      [] st \in {"stage", "wait_dst"} -> 3
      [] st = "dseek" -> 2
      [] st = "write" -> 1
      [] OTHER -> 0

RECURSIVE SumStepsLeft(_)
SumStepsLeft(fs) ==
    IF fs = <<>> THEN 0 ELSE StepsLeft(Head(fs).st) + SumStepsLeft(Tail(fs))

\* statements the thread that called upload still has to execute
PcRank ==
    CASE upc = "start" -> 4
      [] upc = "loop" -> 3
      [] upc = "join" -> 2
      [] upc = "commit" -> 1
      [] OTHER -> 0

\* an upper bound of the steps the upload can still take: it is 0 once
\* upload returned or raised
Remaining ==
    PcRank
        + 8 * (IF upc \in {"start", "loop"} /\ chunk_offset < file_size
               THEN Ceil(file_size - chunk_offset, chunk_size) ELSE 0)
        + SumStepsLeft(futures)

\* C29: every upload terminates: under fair scheduling upload returns or
\* raises with every work item finished.  Until then some step of the caller
\* or of a worker is enabled, every step lowers the bound Remaining, and the
\* lock is held only by a worker inside one of the locked sections, never by a
\* worker that raised
C29_UploadTerminates ==
    /\ [](upc \notin {"returned", "raised"} => ENABLED NextUpload)
    /\ [](upc \in {"returned", "raised"} => Remaining = 0)
    /\ [](file_lock # 0 => (InSrcSection(file_lock) \/ InDstSection(file_lock)))
    /\ [][Remaining' < Remaining]_vars
    /\ <>(upc \in {"returned", "raised"} /\ \A t \in 1..Len(futures) : Finished(futures[t].st))

\* a worker raised in seek while the other waited for the lock, and the
\* upload returned
C29_Witness ==
    /\ sink = "local"
    /\ chunk_workers = 2
    /\ upc = "returned"
    /\ Len(futures) = 2
    /\ futures[1].st = "failed"
    /\ futures[1].file_data = <<>>
    /\ futures[2].st = "done"
    /\ completed = <<1, 2>>

\* the retention call that just ended was made for directory d
RetentionOf(d) ==
    /\ steps # <<>>
    /\ steps[Len(steps)] = <<"retention", d>>

\* C25: a retention call that deletes stored backups is made only in a cycle
\* whose upload stored the new archive completely
C25_RetentionAfterCompleteUpload ==
    \A d \in 1..Len(directories) :
        (RetentionOf(d) /\ ret_calls # <<>>) => upload_ret[d] = "complete"

\* C30: no SFTP session is open once backup() has returned or raised, or
\* once the loop has moved on to the next directory
C30_SftpClosed ==
    bpc \in {"archive", "returned", "raised"} => sftp_open = 0

\* C26: a retention call on a path deletes only entries stored under that
\* path itself
C26_RetentionUnderPathOnly ==
    ret_status # "none" =>
        \A k \in 1..Len(ret_calls) : Dirname(ret_calls[k]) = last_path

\* C27: when the retention call of a directory has returned, the backup
\* uploaded in that cycle is still stored
C27_NewBackupKept ==
    \A d \in 1..Len(directories) :
        (RetentionOf(d) /\ ret_status = "returned") =>
            DstBackup(directories[d].dest) \in stored

\* in `out`, every value under a sensitive key of `data` is the mask, at
\* every depth
RECURSIVE AllMasked(_, _)
AllMasked(data, out) ==
    CASE data.t = "str" -> TRUE
      [] data.t = "dict" ->
            /\ out.t = "dict"
            /\ Len(out.kids) = Len(data.kids)
            /\ \A i \in 1..Len(data.kids) :
                  /\ out.kids[i][1] = data.kids[i][1]
                  /\ IF IsSensitive(data.kids[i][1])
                     THEN out.kids[i][2] = Masked
                     ELSE AllMasked(data.kids[i][2], out.kids[i][2])
      [] data.t = "list" ->
            /\ out.t = "list"
            /\ Len(out.kids) = Len(data.kids)
            /\ \A i \in 1..Len(data.kids) :
                  AllMasked(data.kids[i][2], out.kids[i][2])

\* C24: in the value mask_sensitive_data returns, every value under a
\* sensitive key is replaced by the mask at every depth, a dictionary or a
\* list under a sensitive key included
C24_SensitiveValuesMasked ==
    mpc = "returned" => AllMasked(mask_data, mask_ret)

\* the source reached a terminal state
Terminal(i) == src_state[i] \in {"Succeeded", "Failed"}

\* C21: validate() and backup() are called on the sources in configuration
\* order, each source at most once and validate() first; when a source is
\* called every earlier enabled source is in a terminal state, and at most one
\* source is between validate() and its terminal state; the statements of
\* backup() are executed only while its source is running, directory by
\* directory in configuration order, and a directory is begun only when the
\* cycle of the directory before it has ended
C21_SourcesAndDirectoriesInOrder ==
    /\ \A k \in 1..(Len(calls) - 1) :
          \/ calls[k][2] < calls[k + 1][2]
          \/ /\ calls[k][2] = calls[k + 1][2]
             /\ calls[k][1] = "validate"
             /\ calls[k + 1][1] = "backup"
    /\ \A k \in 1..Len(calls) : \A p \in 1..Len(instances) :
          instances[p] < calls[k][2] => Terminal(instances[p])
    /\ Cardinality({i \in 1..Len(interfaces) :
                        src_state[i] \in {"Validated", "Running"}}) <= 1
    /\ bpc # "idle" =>
          /\ rpc = "running"
          /\ src_state[instances[cur]] = "Running"
          /\ calls[Len(calls)] = <<"backup", instances[cur]>>
    /\ \A k \in 1..Len(steps) :
          /\ steps[k][2] \in 1..Len(directories)
          /\ steps[k][2] <= dcur
          /\ k < Len(steps) => steps[k][2] <= steps[k + 1][2]
    /\ \A d \in 1..Len(directories) :
          (d < dcur \/ \E k \in 1..Len(steps) : steps[k][2] > d) =>
              StepsOf(d) = Expected(d)

\* the first source failed in its second directory and was reported; the
\* second source is in the second directory of its backup
C21_Witness ==
    /\ Len(instances) = 2
    /\ reported = <<instances[1]>>
    /\ calls = <<<<"validate", instances[1]>>, <<"backup", instances[1]>>,
                 <<"validate", instances[2]>>, <<"backup", instances[2]>>>>
    /\ bpc = "upload"
    /\ dcur = 2
    /\ Did("remove", 1)

\* C28: once a statement of backup() raised in directory k, backup() is over:
\* no statement is executed for a later directory of that source, whatever
\* graceful errors is; the exception and its handling leave the stored
\* backups as they are, retention apart, and those of the directories
\* before k in any case; the next backup() is that of the next source, begun
\* at its first directory, and a backup() that returns has processed every
\* directory of its source to the end
C28_FailureEndsSource ==
    /\ [](berror # "none" =>
             /\ bpc \in {"raised", "idle"}
             /\ \A d \in 1..Len(directories) :
                   d > dcur => (~\E k \in 1..Len(steps) : steps[k][2] = d)
             /\ \A d \in 1..Len(directories) :
                   d > dcur => (exists_ret[d] = "none" /\ upload_ret[d] = "none"))
    /\ [](bpc = "returned" =>
             \A d \in 1..Len(directories) : StepsOf(d) = Expected(d))
    /\ [][(bpc' = "raised" /\ bpc # "raised") =>
             /\ bpc = "retention" \/ stored' = stored
             /\ \A d \in 1..(dcur - 1) :
                   DstBackup(directories[d].dest) \in stored =>
                       DstBackup(directories[d].dest) \in stored']_vars
    /\ [][bpc = "raised" =>
             /\ bpc' \in {"raised", "idle"}
             /\ steps' = steps
             /\ stored' = stored
             /\ bpc' = "idle" =>
                   \/ rpc' = "raised" /\ ~graceful
                   \/ rpc' = "validate" /\ cur' = cur + 1 /\ graceful]_vars
    /\ [][(bpc = "idle" /\ bpc' # "idle") =>
             /\ src_state[instances[cur]] = "Validated"
             /\ bpc' = "archive"
             /\ dcur' = 1
             /\ steps' = <<>>]_vars

\* the first source uploaded its first directory and failed in the upload of
\* its second, the backup of the first directory is still stored, and the
\* second source has processed its two directories
C28_Witness ==
    /\ Len(instances) = 2
    /\ reported = <<instances[1]>>
    /\ src_state[instances[1]] = "Failed"
    /\ cur = 2
    /\ bpc = "returned"
    /\ directories = <<DirPlain, DirKeepOne>>
    /\ upload_ret = <<"complete", "complete">>
    /\ DstBackup(PathA2) \in stored

====
